---------------------------- MODULE Spec2Model ----------------------------
(***************************************************************************)
(* QuantScreener frontend (static/app.js) as a state machine.              *)
(*                                                                         *)
(* The state is the script's three globals (screenerData, reversionData,   *)
(* activeView), the chart handle, the part of the DOM the script writes    *)
(* (one record, dom), and the HTTP requests in flight.  One action per     *)
(* event the browser can deliver: a view button (switchView), a click on   *)
(* a rendered row, and the arrival of the response of a pending request.   *)
(* JavaScript runs each handler to completion, so each action is a whole   *)
(* handler, or the whole continuation of an async function after its       *)
(* await.  An exception leaves the writes made before it in place; the     *)
(* helpers return [d |-> the DOM reached, threw |-> whether they raised].  *)
(*                                                                         *)
(* Row indexes are 1-based here (0-based in the script).  Numbers that the *)
(* script formats with toFixed are integers in tenths.                     *)
(***************************************************************************)
EXTENDS Integers, Sequences, FiniteSets, TLC

\* ---- bounds of the model ----
\* longest `signals` list a screener response carries
MaxSignals == 2
\* most backtest requests in flight at once, in the specification of the
\* backtest panel and in the other specifications
MaxPending == 2
MaxPendingElsewhere == 1
\* most fetchPerformanceData calls in flight at once
MaxPerfPending == 1
\* longest `trades` list a trade-log response carries
MaxTrades == 1

\* ---- values ----
\* JavaScript's null, as the value of a cache that no response has filled
Null == [null |-> TRUE]
\* a property the parsed JSON body does not have (JavaScript's undefined)
Undef == "undefined"
\* text that comes from the page's markup, which the script did not write
Markup == "markup"

Views == {"momentum", "reversion", "performance"}
Tickers == {"AAA", "BBB", "CCC"}
Strategies == {"momentum", "reversion"}

\* All sequences over S of length at most n.
SeqsUpTo(S, n) == UNION {[1..k -> S] : k \in 0..n}

\* A signal of a screener response: its ticker, whether it carries a non-empty
\* `news` list, and whether the numeric fields the row formats with toFixed
\* are numbers (nums = FALSE: one of them is missing, and toFixed raises).
Signal == [ticker : Tickers, news : BOOLEAN, nums : BOOLEAN]

\* The momentum signals the model draws from: one with news, one without,
\* and one whose row cannot be formatted.
MomentumSignals ==
    { [ticker |-> "AAA", news |-> TRUE,  nums |-> TRUE],
      [ticker |-> "BBB", news |-> FALSE, nums |-> TRUE],
      [ticker |-> "CCC", news |-> TRUE,  nums |-> FALSE] }

\* The reversion signals the model draws from (no inline news).
ReversionSignals ==
    { [ticker |-> "AAA", news |-> FALSE, nums |-> TRUE],
      [ticker |-> "BBB", news |-> FALSE, nums |-> TRUE],
      [ticker |-> "CCC", news |-> FALSE, nums |-> FALSE] }

Regimes == {"Bearish", "Bullish", "Neutral"}

\* The `signals` lists of a response: at most MaxSignals signals drawn from S,
\* each ticker listed once, in the order of the tickers.
TickerRank(t) == IF t = "AAA" THEN 1 ELSE IF t = "BBB" THEN 2 ELSE 3

SignalLists(S) ==
    { l \in SeqsUpTo(S, MaxSignals) :
        \A i, j \in 1..Len(l) :
            i < j => TickerRank(l[i].ticker) < TickerRank(l[j].ticker) }

\* A parsed body of /api/screener/today.  Any of date, regime and signals may be
\* missing (an error object {detail: ...} has none of them): a missing date or
\* regime is Undef, a missing signals list is hasSignals = FALSE.
ScreenerBodies ==
    { b \in [date : {"d1", Undef}, regime : Regimes \cup {Undef},
             hasSignals : BOOLEAN, signals : SignalLists(MomentumSignals)] :
        ~b.hasSignals => b.signals = <<>> }

\* A parsed body of /api/reversion/today (the script reads date and signals).
ReversionBodies ==
    { b \in [date : {"d2", Undef},
             hasSignals : BOOLEAN, signals : SignalLists(ReversionSignals)] :
        ~b.hasSignals => b.signals = <<>> }

\* What `await fetch(url)` followed by `await resp.json()` can yield: the fetch
\* rejects, the body does not parse, or a parsed object.
Responses(Bodies) ==
    { [kind |-> "network_error", body |-> Null],
      [kind |-> "unparseable", body |-> Null] }
    \cup { [kind |-> "json", body |-> b] : b \in Bodies }

\* A body as the backend documents it: every field present.
WellFormedSignals(b) ==
    /\ b.hasSignals
    /\ \A i \in 1..Len(b.signals) : b.signals[i].nums

WellFormedScreener(b) ==
    b.date # Undef /\ b.regime # Undef /\ WellFormedSignals(b)

WellFormedReversion(b) ==
    b.date # Undef /\ WellFormedSignals(b)

\* A backtest request: /api/backtest/{ticker}?strategy={strategy}
Request == [ticker : Tickers, strategy : Strategies]

\* ---- state ----
VARIABLES
    screenerData,   \* cached momentum screener response, or Null
    reversionData,  \* cached reversion screener response, or Null
    activeView,     \* 'momentum' | 'reversion' | 'performance'
    chart,          \* whether initChart has created the chart and its series
    dom,            \* what the elements the script writes show
    screenerFetch,  \* fetchScreenerData: "pending" at its await, then "done"
    reversionFetch, \* fetchReversionData: "pending" at its await, then "done"
    btPending,      \* the loadBacktest calls at their await, oldest first
    perfPending,    \* the number of fetchPerformanceData calls at their await
    lastOp          \* the handler that ran last: its input, the requests it
                    \* sent and the function an uncaught error came out of

vars == <<screenerData, reversionData, activeView, chart, dom, screenerFetch,
          reversionFetch, btPending, perfPending, lastOp>>

\* The elements whose `hidden` class the script toggles.
Toggled ==
    {"screenerTable", "reversionTable", "perfPanel", "newsPanel", "screenerEmpty",
     "regimeWarn", "regimeBull", "chartPlaceholder", "loadingOverlay",
     "tradeLogTable", "perfEmpty"}

\* The content of an element that the script has not written yet.
FromMarkup == [markup |-> TRUE]

\* The elements the script reaches through getElementById, before it has
\* written to them.  What the markup gives them is not in the script: their
\* text and their `hidden` class are Markup (either way) until the script
\* writes them, and the table bodies hold no rows.
InitialDom ==
    [ panelTitle     |-> Markup,
      btnActive      |-> Markup,
      hidden         |-> [e \in Toggled |-> Markup],
      screenerDate   |-> Markup,
      screenerRows   |-> <<>>,
      screenerActive |-> {},
      reversionRows  |-> <<>>,
      reversionActive |-> {},
      newsLabel      |-> Markup,
      activeTicker   |-> [label |-> Markup],
      winRate        |-> FromMarkup,
      profitFactor   |-> FromMarkup,
      maxDrawdown    |-> FromMarkup,
      totalTrades    |-> FromMarkup,
      totalReturn    |-> FromMarkup,
      returnColor    |-> Markup,
      curveData      |-> FromMarkup,
      curveColor     |-> Markup,
      perfMetricsGrid |-> <<[label |-> Markup]>>,
      tradeLogRows   |-> <<>> ]

\* classList.add('hidden') / classList.remove('hidden') on element e.
Hide(d, e) == [d EXCEPT !.hidden[e] = "yes"]
Show(d, e) == [d EXCEPT !.hidden[e] = "no"]
\* e is hidden / e is displayed, by a write of the script
Hidden(d, e) == d.hidden[e] = "yes"
Shown(d, e) == d.hidden[e] = "no"
\* e is displayed, or would be if the markup does not hide it
Visible(d, e) == d.hidden[e] # "yes"

\* What a helper hands back: the DOM it reached and whether it raised.
Done(d) == [d |-> d, threw |-> FALSE]
Raised(d) == [d |-> d, threw |-> TRUE]

\* ---- rendering the two signal tables ----

\* The index of the first signal whose row template raises (toFixed of a
\* missing number), or Len + 1 when every row renders.
FirstBad(signals) ==
    IF \E i \in 1..Len(signals) : ~signals[i].nums
    THEN CHOOSE i \in 1..Len(signals) :
            /\ ~signals[i].nums
            /\ \A j \in 1..(i - 1) : signals[j].nums
    ELSE Len(signals) + 1

\* The rows forEach appends before it finishes or raises: row i shows the
\* ticker of signals[i] and its click handler is bound to idx = i.
Rows(signals) ==
    [i \in 1..(FirstBad(signals) - 1) |-> [idx |-> i, ticker |-> signals[i].ticker]]

renderMomentumSignals(d, sd) ==
    IF sd = Null
    THEN Done(Show(Hide(d, "screenerTable"), "screenerEmpty"))
    ELSE IF ~sd.hasSignals
    THEN Raised(d)
    ELSE IF Len(sd.signals) = 0
    THEN Done(Show(Hide(d, "screenerTable"), "screenerEmpty"))
    ELSE LET shown == Show(Hide(d, "screenerEmpty"), "screenerTable")
             filled == [shown EXCEPT !.screenerRows = Rows(sd.signals),
                                     !.screenerActive = {}]
         IN  IF FirstBad(sd.signals) <= Len(sd.signals)
             THEN Raised(filled) ELSE Done(filled)

renderReversionSignals(d, rd) ==
    IF rd = Null
    THEN Done(Show(Hide(d, "reversionTable"), "screenerEmpty"))
    ELSE IF ~rd.hasSignals
    THEN Raised(d)
    ELSE IF Len(rd.signals) = 0
    THEN Done(Show(Hide(d, "reversionTable"), "screenerEmpty"))
    ELSE LET shown == Show(Hide(d, "screenerEmpty"), "reversionTable")
             filled == [shown EXCEPT !.reversionRows = Rows(rd.signals),
                                     !.reversionActive = {}]
         IN  IF FirstBad(rd.signals) <= Len(rd.signals)
             THEN Raised(filled) ELSE Done(filled)

\* ---- view toggle ----

\* HideAllPanels without line 99: the reversion table is left as it is.
HideAllPanels_KeepsReversion(d, view) ==
    LET b == [d EXCEPT !.btnActive = view]
    IN  Hide(Hide(Hide(Hide(b, "screenerTable"), "perfPanel"), "newsPanel"),
             "screenerEmpty")

\* The part of switchView before it renders: the button styling and the
\* five panels hidden.
HideAllPanels(d, view) ==
    LET b == [d EXCEPT !.btnActive = view]
    IN  Hide(Hide(Hide(Hide(Hide(b, "screenerTable"), "reversionTable"),
                  "perfPanel"), "newsPanel"), "screenerEmpty")

\* switchView(view), up to its call of fetchPerformanceData.
switchView(d, view, sd, rd) ==
    LET h == HideAllPanels(d, view)
    IN  IF view = "momentum"
        THEN renderMomentumSignals([h EXCEPT !.panelTitle = "Momentum Triggers"], sd)
        ELSE IF view = "reversion"
        THEN renderReversionSignals([h EXCEPT !.panelTitle = "Oversold Reversions"], rd)
        ELSE IF view = "performance"
        THEN Done(Show([h EXCEPT !.panelTitle = "Paper Trading"], "perfPanel"))
        ELSE Done(h)

\* ---- the two load-time fetches ----

\* element.textContent = v: undefined is written as the empty string.
TextContent(v) == IF v = Undef THEN "" ELSE v

\* The regime banners after lines 149-155, for a body that has `regime`.
RegimeBanners(d, regime) ==
    LET off == Hide(Hide(d, "regimeWarn"), "regimeBull")
    IN  IF regime = "Bearish" THEN Show(off, "regimeWarn")
        ELSE IF regime = "Bullish" THEN Show(off, "regimeBull")
        ELSE off

\* fetchScreenerData writing the date badge only while its view is active,
\* the way fetchReversionData does.
fetchScreenerData_DateIfActive(d, sd, resp, av) ==
    IF resp.kind # "json"
    THEN [data |-> sd, d |-> d, caught |-> TRUE]
    ELSE LET data  == resp.body
             dated == IF av = "momentum"
                      THEN [d EXCEPT !.screenerDate = TextContent(data.date)]
                      ELSE d
         IN  IF data.regime = Undef
             THEN [data |-> data, caught |-> TRUE,
                   d |-> Hide(Hide(dated, "regimeWarn"), "regimeBull")]
             ELSE LET bannered == RegimeBanners(dated, data.regime)
                      r == IF av = "momentum"
                           THEN renderMomentumSignals(bannered, data)
                           ELSE Done(bannered)
                  IN  [data |-> data, d |-> r.d, caught |-> r.threw]

\* fetchScreenerData from its await on, for response resp with view av
\* active: the cache and the DOM it leaves.  Every error is caught (line 161).
fetchScreenerData(d, sd, resp, av) ==
    IF resp.kind # "json"
    THEN [data |-> sd, d |-> d, caught |-> TRUE]
    ELSE LET data  == resp.body
             dated == [d EXCEPT !.screenerDate = TextContent(data.date)]
         IN  IF data.regime = Undef
             THEN [data |-> data, caught |-> TRUE,
                   d |-> Hide(Hide(dated, "regimeWarn"), "regimeBull")]
             ELSE LET bannered == RegimeBanners(dated, data.regime)
                      r == IF av = "momentum"
                           THEN renderMomentumSignals(bannered, data)
                           ELSE Done(bannered)
                  IN  [data |-> data, d |-> r.d, caught |-> r.threw]

\* fetchReversionData writing the date badge before it looks at activeView.
fetchReversionData_DatesAlways(d, rd, resp, av) ==
    IF resp.kind # "json"
    THEN [data |-> rd, d |-> d, caught |-> TRUE]
    ELSE LET data  == resp.body
             dated == [d EXCEPT !.screenerDate = TextContent(data.date)]
         IN  IF av = "reversion"
             THEN LET r == renderReversionSignals(dated, data)
                  IN  [data |-> data, d |-> r.d, caught |-> r.threw]
             ELSE [data |-> data, d |-> dated, caught |-> FALSE]

\* fetchReversionData from its await on.  Every error is caught (line 219).
fetchReversionData(d, rd, resp, av) ==
    IF resp.kind # "json"
    THEN [data |-> rd, d |-> d, caught |-> TRUE]
    ELSE LET data == resp.body
         IN  IF av = "reversion"
             THEN LET r == renderReversionSignals(
                              [d EXCEPT !.screenerDate = TextContent(data.date)], data)
                  IN  [data |-> data, d |-> r.d, caught |-> r.threw]
             ELSE [data |-> data, d |-> d, caught |-> FALSE]

\* ---- news ----

\* showNews without its early return: the panel is shown for an empty list.
showNews_ShowsEmpty(d, stock) ==
    Show([d EXCEPT !.newsLabel = stock.ticker], "newsPanel")

\* showNews(stock): hide the panel for a missing or empty `news`, else label
\* it with the ticker, fill the list and show it.
showNews(d, stock) ==
    IF ~stock.news
    THEN Hide(d, "newsPanel")
    ELSE Show([d EXCEPT !.newsLabel = stock.ticker], "newsPanel")

\* ---- backtest ----

\* initChart: the chart and its one line series, created with a fixed colour.
initChart(d) ==
    [d EXCEPT !.curveColor = "#2962FF", !.curveData = [empty |-> TRUE]]

\* loadBacktest without line 293: the overlay is left as it is.
loadBacktest_NoOverlay(d, ch, ticker, strategy) ==
    LET label   == IF strategy = "reversion" THEN "Reversion BT" ELSE "Backtest"
        named   == [d EXCEPT !.activeTicker = [label |-> label, ticker |-> ticker]]
        loading == Hide(named, "chartPlaceholder")
    IN  IF ~ch THEN initChart(loading) ELSE loading

\* loadBacktest(ticker, strategy) up to its await: the label, the placeholder
\* and the overlay, and the chart on first use.
loadBacktest(d, ch, ticker, strategy) ==
    LET label   == IF strategy = "reversion" THEN "Reversion BT" ELSE "Backtest"
        named   == [d EXCEPT !.activeTicker = [label |-> label, ticker |-> ticker]]
        loading == Show(Hide(named, "chartPlaceholder"), "loadingOverlay")
    IN  IF ~ch THEN initChart(loading) ELSE loading

\* number.toFixed(digits), of a number given in tenths
ToFixed(tenths, digits) == [tenths |-> tenths, digits |-> digits]

\* The colour of the return text with > for >=: a zero return shown as a loss.
ReturnColor_ZeroIsLoss(total_return_pct) ==
    IF total_return_pct > 0 THEN "#3fb950" ELSE "#f85149"

\* The colour of the return text (line 321).
ReturnColor(total_return_pct) ==
    IF total_return_pct >= 0 THEN "#3fb950" ELSE "#f85149"

\* What the backend can answer to a backtest request.  A success body has
\* every field ("full"), lacks total_return_pct ("no_return"), or is an
\* object without any metric ("no_metrics").
BacktestResponses ==
    { [kind |-> "network_error"] }
    \cup { [kind |-> "http_error", parsed |-> FALSE] }
    \cup { [kind |-> "http_error", parsed |-> TRUE, detail |-> dt] :
              dt \in {"No data", Undef} }
    \cup { [kind |-> "ok", parsed |-> FALSE] }
    \cup { [kind |-> "ok", parsed |-> TRUE, shape |-> "no_metrics"],
           [kind |-> "ok", parsed |-> TRUE, shape |-> "no_return"] }
    \cup { [kind |-> "ok", parsed |-> TRUE, shape |-> "full", total_return_pct |-> t] :
              t \in {-52, 0, 31} }

\* Lines 313-325 with the line series given the colour of the return text.
UpdateMetrics_ColoursCurve(d, req, body) ==
    IF body.shape = "no_metrics"
    THEN Raised(d)
    ELSE LET four == [d EXCEPT !.winRate = [src |-> req],
                               !.profitFactor = [src |-> req],
                               !.maxDrawdown = [src |-> req],
                               !.totalTrades = [src |-> req]]
         IN  IF body.shape = "no_return"
             THEN Raised(four)
             ELSE Done([four EXCEPT
                          !.totalReturn = [src |-> req,
                                           text |-> ToFixed(body.total_return_pct, 1)],
                          !.returnColor = ReturnColor(body.total_return_pct),
                          !.curveData = [src |-> req],
                          !.curveColor = ReturnColor(body.total_return_pct)])

\* Lines 313-325 for the parsed success body of request req: the writes made
\* before the first toFixed of a missing number raises.
UpdateMetrics(d, req, body) ==
    IF body.shape = "no_metrics"
    THEN Raised(d)
    ELSE LET four == [d EXCEPT !.winRate = [src |-> req],
                               !.profitFactor = [src |-> req],
                               !.maxDrawdown = [src |-> req],
                               !.totalTrades = [src |-> req]]
         IN  IF body.shape = "no_return"
             THEN Raised(four)
             ELSE Done([four EXCEPT
                          !.totalReturn = [src |-> req,
                                           text |-> ToFixed(body.total_return_pct, 1)],
                          !.returnColor = ReturnColor(body.total_return_pct),
                          !.curveData = [src |-> req]])

\* The label of line 305 without the ticker.
ErrorLabel_DetailOnly(ticker, detail) ==
    [label |-> "error", ticker |-> "", detail |-> detail]

\* The label of line 305: `${ticker} — ${err.detail}`.
ErrorLabel(ticker, detail) ==
    [label |-> "error", ticker |-> ticker, detail |-> detail]

\* loadBacktest from its await on, without its finally block: only the path
\* of a non-success status hides the overlay (line 306).
loadBacktestResume_NoFinally(d, req, resp) ==
    IF resp.kind = "network_error" THEN d
    ELSE IF ~resp.parsed THEN d
    ELSE IF resp.kind = "http_error"
    THEN Hide([d EXCEPT !.activeTicker = ErrorLabel(req.ticker, resp.detail)],
              "loadingOverlay")
    ELSE UpdateMetrics(d, req, resp).d

\* loadBacktest from its await on, dropping the response of a request that
\* the label no longer names.
loadBacktestResume_DropsStale(d, req, resp) ==
    LET current == d.activeTicker.label \in {"Backtest", "Reversion BT"}
                     => d.activeTicker.ticker = req.ticker
        after ==
          IF resp.kind = "network_error" THEN d
          ELSE IF ~resp.parsed THEN d
          ELSE IF ~current THEN d
          ELSE IF resp.kind = "http_error"
          THEN [d EXCEPT !.activeTicker = ErrorLabel(req.ticker, resp.detail)]
          ELSE UpdateMetrics(d, req, resp).d
    IN  Hide(after, "loadingOverlay")

\* loadBacktest from its await on, for the response resp to request req.
\* Every error is caught (line 327) and the overlay is hidden on every path.
loadBacktestResume(d, req, resp) ==
    LET after ==
          IF resp.kind = "network_error" THEN d
          ELSE IF ~resp.parsed THEN d
          ELSE IF resp.kind = "http_error"
          THEN [d EXCEPT !.activeTicker = ErrorLabel(req.ticker, resp.detail)]
          ELSE UpdateMetrics(d, req, resp).d
    IN  Hide(after, "loadingOverlay")

\* ---- row clicks ----

\* Highlight without line 196: the rows lit before stay lit.
Highlight_KeepsOthers(active, idx) == active \cup {idx}

\* classList.remove('active') on every row, then add on the row with data-idx.
Highlight(active, idx) == (active \ active) \cup {idx}

\* onMomentumClick(idx): [d, threw, sent], sent the backtest requests issued.
onMomentumClick(d, ch, idx, sd) ==
    IF sd = Null \/ ~sd.hasSignals
    THEN [d |-> d, threw |-> TRUE, sent |-> <<>>]
    ELSE LET lit == [d EXCEPT !.screenerActive = Highlight(@, idx)]
         IN  IF idx > Len(sd.signals)
             THEN [d |-> lit, threw |-> TRUE, sent |-> <<>>]
             ELSE LET stock == sd.signals[idx]
                  IN  [d |-> loadBacktest(showNews(lit, stock), ch, stock.ticker, "momentum"),
                       threw |-> FALSE,
                       sent |-> <<[ticker |-> stock.ticker, strategy |-> "momentum"]>>]

\* onReversionClick(idx)
onReversionClick(d, ch, idx, rd) ==
    IF rd = Null \/ ~rd.hasSignals
    THEN [d |-> d, threw |-> TRUE, sent |-> <<>>]
    ELSE LET lit == [d EXCEPT !.reversionActive = Highlight(@, idx)]
         IN  IF idx > Len(rd.signals)
             THEN [d |-> Hide(lit, "newsPanel"), threw |-> TRUE, sent |-> <<>>]
             ELSE LET stock == rd.signals[idx]
                  IN  [d |-> loadBacktest(Hide(lit, "newsPanel"), ch, stock.ticker, "reversion"),
                       threw |-> FALSE,
                       sent |-> <<[ticker |-> stock.ticker, strategy |-> "reversion"]>>]

\* ---- performance tab ----

\* A parsed body of /api/paper/metrics; complete = FALSE: one of the numbers
\* renderPerfMetrics formats with toFixed is missing.
MetricsBodies ==
    { m \in [total_pnl : {-10, 25}, win_rate : {550}, profit_factor : {15},
              closed_trades : {3}, total_trades : {5}, avg_return_pct : {-3, 4},
              avg_hold_days : {20}, complete : BOOLEAN] :
        ~m.complete => m.total_pnl = 25 /\ m.avg_return_pct = 4 }

Statuses == {"pending", "open", "closed", "cancelled"}

\* A trade record; hasPnl = FALSE: pnl_pct is null; exit_price is set on
\* closed trades only.
Trades ==
    { t \in [ticker : {"AAA"}, strategy : {"momentum"}, hasPnl : BOOLEAN,
             pnl_pct : {-12, 0, 31}, hasExit : BOOLEAN, status : Statuses] :
        /\ ~t.hasPnl => t.pnl_pct = 0
        /\ t.hasExit <=> t.status = "closed" }

\* A parsed body of /api/paper/trades?status=all; hasTrades = FALSE: no `trades`.
TradesBodies ==
    { b \in [hasTrades : BOOLEAN, trades : SeqsUpTo(Trades, MaxTrades)] :
        ~b.hasTrades => b.trades = <<>> }

PnlColor(v) == IF v >= 0 THEN "var(--green)" ELSE "var(--red)"

\* The template without its last card.
PerfCards_NoAvgHold(m) ==
    << [label |-> "Total PnL", value |-> ToFixed(m.total_pnl, 2),
        color |-> PnlColor(m.total_pnl)],
       [label |-> "Win Rate", value |-> ToFixed(m.win_rate, 1)],
       [label |-> "Profit Factor", value |-> ToFixed(m.profit_factor, 2)],
       [label |-> "Trades", value |-> <<m.closed_trades, m.total_trades>>],
       [label |-> "Avg Return", value |-> ToFixed(m.avg_return_pct, 2),
        color |-> PnlColor(m.avg_return_pct)] >>

\* The cards of the template of lines 356-381, in order.
PerfCards(m) ==
    << [label |-> "Total PnL", value |-> ToFixed(m.total_pnl, 2),
        color |-> PnlColor(m.total_pnl)],
       [label |-> "Win Rate", value |-> ToFixed(m.win_rate, 1)],
       [label |-> "Profit Factor", value |-> ToFixed(m.profit_factor, 2)],
       [label |-> "Trades", value |-> <<m.closed_trades, m.total_trades>>],
       [label |-> "Avg Return", value |-> ToFixed(m.avg_return_pct, 2),
        color |-> PnlColor(m.avg_return_pct)],
       [label |-> "Avg Hold", value |-> ToFixed(m.avg_hold_days, 1)] >>

\* renderPerfMetrics(m): the template raises before innerHTML is assigned
\* when a number it formats is missing.
renderPerfMetrics(d, m) ==
    IF ~m.complete
    THEN Raised(d)
    ELSE Done([d EXCEPT !.perfMetricsGrid = PerfCards(m)])

\* pnlClass with >= for >: a trade that broke even shown as a gain.
PnlClass_ZeroIsGain(t) ==
    IF t.hasPnl /\ t.pnl_pct >= 0 THEN "pnl-positive"
    ELSE IF t.hasPnl /\ t.pnl_pct < 0 THEN "pnl-negative"
    ELSE ""

\* pnlClass (line 398): null compares false with 0 both ways.
PnlClass(t) ==
    IF t.hasPnl /\ t.pnl_pct > 0 THEN "pnl-positive"
    ELSE IF t.hasPnl /\ t.pnl_pct < 0 THEN "pnl-negative"
    ELSE ""

BadgeClass(t) ==
    IF t.status = "open" THEN "status-open"
    ELSE IF t.status = "closed" THEN "status-closed"
    ELSE "status-pending"

\* The row renderTradeLog builds for trade t.
TradeRow(t) ==
    [ ticker   |-> t.ticker,
      strategy |-> t.strategy,
      exitStr  |-> IF t.hasExit THEN "$" ELSE "--",
      pnlVal   |-> IF t.hasPnl THEN ToFixed(t.pnl_pct, 2) ELSE [none |-> "--"],
      pnlClass |-> PnlClass(t),
      badgeClass |-> BadgeClass(t),
      status   |-> t.status ]

renderTradeLog(d, b) ==
    IF ~b.hasTrades \/ Len(b.trades) = 0
    THEN Show(Hide(d, "tradeLogTable"), "perfEmpty")
    ELSE [Show(Hide(d, "perfEmpty"), "tradeLogTable") EXCEPT
            !.tradeLogRows = [i \in 1..Len(b.trades) |-> TradeRow(b.trades[i])]]

\* fetchPerformanceData rendering only while the performance panel is shown.
fetchPerformanceData_IfShown(d, mresp, tresp) ==
    IF mresp.kind # "json" \/ tresp.kind # "json" \/ ~Shown(d, "perfPanel")
    THEN d
    ELSE LET r == renderPerfMetrics(d, mresp.body)
         IN  IF r.threw THEN r.d ELSE renderTradeLog(r.d, tresp.body)

\* fetchPerformanceData from its await on, for the two responses.  It does
\* not read activeView.  Every error is caught (line 347).
fetchPerformanceData(d, mresp, tresp) ==
    IF mresp.kind # "json" \/ tresp.kind # "json"
    THEN d
    ELSE LET r == renderPerfMetrics(d, mresp.body)
         IN  IF r.threw THEN r.d ELSE renderTradeLog(r.d, tresp.body)

\* ---- the requests ----
ScreenerUrl == [path |-> "/api/screener/today"]
ReversionUrl == [path |-> "/api/reversion/today"]
MetricsUrl == [path |-> "/api/paper/metrics"]
TradesUrl == [path |-> "/api/paper/trades?status=all"]
BacktestUrl(req) ==
    [path |-> "/api/backtest/", ticker |-> req.ticker, strategy |-> req.strategy]

\* s without its i-th element
RemoveAt(s, i) == [j \in 1..(Len(s) - 1) |-> IF j < i THEN s[j] ELSE s[j + 1]]

\* ---- initial state: the script has run to its end (lines 420-421) ----
Init ==
    /\ screenerData = Null
    /\ reversionData = Null
    /\ activeView = "momentum"
    /\ chart = FALSE
    /\ dom = InitialDom
    /\ screenerFetch = "pending"
    /\ reversionFetch = "pending"
    /\ btPending = <<>>
    /\ perfPending = 0
    /\ lastOp = [op |-> "load", threw |-> FALSE, sent |-> <<ScreenerUrl, ReversionUrl>>]

\* ---- actions ----

\* A view button calls switchView(view).
SwitchView ==
    \E view \in Views :
        LET r == switchView(dom, view, screenerData, reversionData)
            fetches == view = "performance" /\ ~r.threw
        IN  /\ fetches => perfPending < MaxPerfPending
            /\ activeView' = view
            /\ dom' = r.d
            /\ perfPending' = IF fetches THEN perfPending + 1 ELSE perfPending
            /\ lastOp' = [op |-> "switchView", view |-> view, threw |-> r.threw,
                          sent |-> IF fetches THEN <<MetricsUrl, TradesUrl>> ELSE <<>>]
            /\ UNCHANGED <<screenerData, reversionData, chart, screenerFetch,
                           reversionFetch, btPending>>

\* The response of /api/screener/today arrives.
ScreenerArrives(SR) ==
    \E resp \in SR :
        LET r == fetchScreenerData(dom, screenerData, resp, activeView)
        IN  /\ screenerFetch = "pending"
            /\ screenerFetch' = "done"
            /\ screenerData' = r.data
            /\ dom' = r.d
            /\ lastOp' = [op |-> "fetchScreenerData", kind |-> resp.kind,
                          caught |-> r.caught,
                          threw |-> FALSE, sent |-> <<>>]
            /\ UNCHANGED <<reversionData, activeView, chart, reversionFetch,
                           btPending, perfPending>>

\* The response of /api/reversion/today arrives.
ReversionArrives(RR) ==
    \E resp \in RR :
        LET r == fetchReversionData(dom, reversionData, resp, activeView)
        IN  /\ reversionFetch = "pending"
            /\ reversionFetch' = "done"
            /\ reversionData' = r.data
            /\ dom' = r.d
            /\ lastOp' = [op |-> "fetchReversionData", kind |-> resp.kind,
                          caught |-> r.caught,
                          threw |-> FALSE, sent |-> <<>>]
            /\ UNCHANGED <<screenerData, activeView, chart, screenerFetch,
                           btPending, perfPending>>

\* The user clicks a row of the momentum table: only a rendered row of a
\* visible table can be clicked.
MomentumClick(maxPending) ==
    \E idx \in 1..Len(dom.screenerRows) :
        LET r == onMomentumClick(dom, chart, idx, screenerData)
        IN  /\ Visible(dom, "screenerTable")
            /\ Len(btPending) + Len(r.sent) <= maxPending
            /\ dom' = r.d
            /\ chart' = (chart \/ r.sent # <<>>)
            /\ btPending' = btPending \o r.sent
            /\ lastOp' = [op |-> "onMomentumClick", idx |-> idx, threw |-> r.threw,
                          sent |-> [i \in 1..Len(r.sent) |-> BacktestUrl(r.sent[i])]]
            /\ UNCHANGED <<screenerData, reversionData, activeView, screenerFetch,
                           reversionFetch, perfPending>>

\* The user clicks a row of the reversion table.
ReversionClick(maxPending) ==
    \E idx \in 1..Len(dom.reversionRows) :
        LET r == onReversionClick(dom, chart, idx, reversionData)
        IN  /\ Visible(dom, "reversionTable")
            /\ Len(btPending) + Len(r.sent) <= maxPending
            /\ dom' = r.d
            /\ chart' = (chart \/ r.sent # <<>>)
            /\ btPending' = btPending \o r.sent
            /\ lastOp' = [op |-> "onReversionClick", idx |-> idx, threw |-> r.threw,
                          sent |-> [i \in 1..Len(r.sent) |-> BacktestUrl(r.sent[i])]]
            /\ UNCHANGED <<screenerData, reversionData, activeView, screenerFetch,
                           reversionFetch, perfPending>>

\* The response of one of the backtest requests in flight arrives.
BacktestArrives(BR) ==
    \E i \in 1..Len(btPending), resp \in BR :
        /\ dom' = loadBacktestResume(dom, btPending[i], resp)
        /\ btPending' = RemoveAt(btPending, i)
        /\ lastOp' = [op |-> "loadBacktest", req |-> btPending[i], resp |-> resp,
                      threw |-> FALSE, sent |-> <<>>]
        /\ UNCHANGED <<screenerData, reversionData, activeView, chart,
                       screenerFetch, reversionFetch, perfPending>>

\* Both responses of one fetchPerformanceData call have arrived (or one of
\* the two fetches was rejected).
PerformanceArrives(MR, TR) ==
    \E mresp \in MR, tresp \in TR :
        /\ perfPending > 0
        /\ perfPending' = perfPending - 1
        /\ dom' = fetchPerformanceData(dom, mresp, tresp)
        /\ lastOp' = [op |-> "fetchPerformanceData", metrics |-> mresp,
                      trades |-> tresp.kind, threw |-> FALSE, sent |-> <<>>]
        /\ UNCHANGED <<screenerData, reversionData, activeView, chart,
                       screenerFetch, reversionFetch, btPending>>

\* ---- specifications ----

\* Every response the model knows of each endpoint.
ScreenerResponses == Responses(ScreenerBodies)
ReversionResponses == Responses(ReversionBodies)
MetricsResponses == Responses(MetricsBodies)
TradesResponses == Responses(TradesBodies)

\* What the specifications give the endpoints they are not about: one
\* well-formed response.
CoreScreener ==
    { r \in ScreenerResponses :
        /\ r.kind = "json" /\ WellFormedScreener(r.body)
        /\ r.body.regime = "Bearish"
        /\ Len(r.body.signals) = 1 /\ r.body.signals[1].ticker = "AAA" }

CoreReversion ==
    { r \in ReversionResponses :
        /\ r.kind = "json" /\ WellFormedReversion(r.body)
        /\ Len(r.body.signals) = 1 /\ r.body.signals[1].ticker = "BBB" }

CoreBacktest == { r \in BacktestResponses : r.kind = "network_error" }

CoreMetrics == { r \in MetricsResponses : r.kind = "network_error" }

CoreTrades == { r \in TradesResponses : r.kind = "network_error" }

\* The reversion responses that differ in what the script does with them: a
\* rejected fetch, an unparseable body, an error object, and bodies with no
\* signal, with two signals, and with a signal whose row cannot be formatted.
SampleReversion ==
    { r \in ReversionResponses :
        r.kind = "json" =>
            \/ r.body.date = Undef /\ ~r.body.hasSignals
            \/ /\ r.body.date # Undef /\ r.body.hasSignals
               /\ Len(r.body.signals) # 1
               /\ Len(r.body.signals) > 0 => r.body.signals[1].ticker = "AAA" }

\* The two signal tables: every response of the momentum screener, with the
\* reversion responses above.
Next ==
    \/ SwitchView
    \/ ScreenerArrives(ScreenerResponses)
    \/ ReversionArrives(SampleReversion)
    \/ MomentumClick(MaxPendingElsewhere)
    \/ ReversionClick(MaxPendingElsewhere)
    \/ BacktestArrives(CoreBacktest)
    \/ PerformanceArrives(CoreMetrics, CoreTrades)

Spec == Init /\ [][Next]_vars

\* The backtest panel: every response of the backtest endpoint.
NextBacktest ==
    \/ SwitchView
    \/ ScreenerArrives(CoreScreener)
    \/ ReversionArrives(CoreReversion)
    \/ MomentumClick(MaxPending)
    \/ ReversionClick(MaxPending)
    \/ BacktestArrives(BacktestResponses)
    \/ PerformanceArrives(CoreMetrics, CoreTrades)

SpecBacktest == Init /\ [][NextBacktest]_vars

\* The trade-log responses that differ in what fetchPerformanceData does with
\* them: a rejected fetch, an unparseable body, no `trades`, an empty list,
\* and a list of closed trades with a gain.
SampleTrades ==
    { r \in TradesResponses :
        r.kind = "json" =>
            \A i \in 1..Len(r.body.trades) :
                r.body.trades[i].status = "closed" /\ r.body.trades[i].pnl_pct = 31 }

\* The performance tab: every response of the metrics endpoint, with the
\* trade-log responses above.
NextPerformance ==
    \/ SwitchView
    \/ ScreenerArrives(CoreScreener)
    \/ ReversionArrives(CoreReversion)
    \/ MomentumClick(MaxPendingElsewhere)
    \/ ReversionClick(MaxPendingElsewhere)
    \/ BacktestArrives(CoreBacktest)
    \/ PerformanceArrives(MetricsResponses, SampleTrades)

SpecPerformance == Init /\ [][NextPerformance]_vars

\* One metrics response that renderPerfMetrics renders, so that the trade log
\* is reached.
SampleMetrics ==
    { r \in MetricsResponses :
        r.kind = "json" /\ r.body.complete /\ r.body.total_pnl = 25
                        /\ r.body.avg_return_pct = 4 }

\* The trade-log responses whose trades are the kinds the backend keeps: a
\* closed trade with a gain or a loss, an open or pending trade without P&L
\* yet, and a cancelled trade that broke even.
TradeLogResponses ==
    { r \in TradesResponses :
        r.kind = "json" =>
            \A i \in 1..Len(r.body.trades) :
                LET t == r.body.trades[i]
                IN  \/ t.status = "closed" /\ t.hasPnl /\ t.pnl_pct # 0
                    \/ t.status \in {"open", "pending"} /\ ~t.hasPnl
                    \/ t.status = "cancelled" /\ t.hasPnl /\ t.pnl_pct = 0 }

\* The trade log: the trade-log responses above after a metrics response
\* that renders.
NextTradeLog ==
    \/ SwitchView
    \/ ScreenerArrives(CoreScreener)
    \/ ReversionArrives(CoreReversion)
    \/ MomentumClick(MaxPendingElsewhere)
    \/ ReversionClick(MaxPendingElsewhere)
    \/ BacktestArrives(CoreBacktest)
    \/ PerformanceArrives(SampleMetrics, TradeLogResponses)

SpecTradeLog == Init /\ [][NextTradeLog]_vars

\* One backtest response for each way a request completes: a rejected fetch,
\* a non-success status with its detail, a success body without metrics
\* (a TypeError, caught) and a success.
SampleBacktest ==
    { r \in BacktestResponses :
        \/ r.kind = "network_error"
        \/ r.kind = "http_error" /\ r.parsed /\ r.detail = "No data"
        \/ r.kind = "ok" /\ r.parsed /\ r.shape = "no_metrics"
        \/ r.kind = "ok" /\ r.parsed /\ r.shape = "full" /\ r.total_return_pct = 31 }

\* The backtest requests when every request in flight is answered in the
\* end: the browser settles every fetch (with a response or a rejection),
\* and the continuation of loadBacktest then runs.
NextOverlay ==
    \/ SwitchView
    \/ ScreenerArrives(CoreScreener)
    \/ ReversionArrives(CoreReversion)
    \/ MomentumClick(MaxPending)
    \/ ReversionClick(MaxPending)
    \/ BacktestArrives(SampleBacktest)
    \/ PerformanceArrives(CoreMetrics, CoreTrades)

SpecOverlay ==
    Init /\ [][NextOverlay]_vars /\ WF_vars(BacktestArrives(SampleBacktest))

\* ---- what the claims are about ----

\* switchView has run at least once: it alone writes the buttons.
Switched == dom.btnActive # Markup

\* The part of the display the two load-time fetches share, apart from the
\* date badge and the regime banners: the two tables, the empty-state
\* element and the rendered rows.
TablesDisplay(d) ==
    << d.hidden["screenerTable"], d.hidden["reversionTable"],
       d.hidden["screenerEmpty"],
       d.screenerRows, d.screenerActive, d.reversionRows, d.reversionActive >>

\* d with date badge and banners as in e: what is left of a difference
\* between d and e lies elsewhere.
WithBadgeAndBanners(d, e) ==
    [d EXCEPT !.screenerDate = e.screenerDate,
              !.hidden["regimeWarn"] = e.hidden["regimeWarn"],
              !.hidden["regimeBull"] = e.hidden["regimeBull"]]

\* Two values of a display field agree: they are equal, or the script had not
\* written the field and writes what a blank badge or a hidden element shows.
Agree(before, after) ==
    after = before \/ (before = Markup /\ after \in {"", "yes"})

ScreenerArrived == screenerFetch = "pending" /\ screenerFetch' = "done"
ReversionArrived == reversionFetch = "pending" /\ reversionFetch' = "done"

\* ---- C1 ----
\* C1: from the first switchView on, through any view switches, row clicks
\* and fetch completions, only the content of the active view can be visible:
\* the momentum table only in the momentum view, the reversion table only in
\* the reversion view, the performance panel exactly in the performance view,
\* and never the shared empty-state element in the performance view.
C1_OnlyActiveViewVisible ==
    Switched =>
        /\ Visible(dom, "screenerTable") => activeView = "momentum"
        /\ Visible(dom, "reversionTable") => activeView = "reversion"
        /\ Visible(dom, "perfPanel") => activeView = "performance"
        /\ activeView = "performance" => Shown(dom, "perfPanel")
        /\ activeView = "performance" => ~Visible(dom, "screenerEmpty")

\* Both fetches have completed, a row of the visible reversion table has been
\* clicked, and the momentum table is hidden.
C1_Witness ==
    /\ Switched
    /\ activeView = "reversion"
    /\ Shown(dom, "reversionTable")
    /\ Hidden(dom, "screenerTable")
    /\ screenerFetch = "done" /\ screenerData # Null
    /\ reversionFetch = "done"
    /\ lastOp.op = "onReversionClick"

\* ---- C2 ----
\* C2 as claimed: a response of either load-time fetch that arrives while its
\* view is not the active one changes nothing of the shared display state.
C2_InactiveFetchChangesNoDisplay ==
    [][ ((ScreenerArrived /\ activeView # "momentum")
           \/ (ReversionArrived /\ activeView # "reversion"))
            => /\ Agree(dom.screenerDate, dom'.screenerDate)
               /\ Agree(dom.hidden["regimeWarn"], dom'.hidden["regimeWarn"])
               /\ Agree(dom.hidden["regimeBull"], dom'.hidden["regimeBull"])
               /\ TablesDisplay(dom') = TablesDisplay(dom) ]_vars

\* C2 as amended: a reversion response that arrives while the reversion view
\* is not active changes the reversionData cache and nothing displayed; a
\* screener response that arrives while the momentum view is not active
\* changes the screenerData cache and, of the display, the date badge and the
\* regime banners only: tables, empty-state element and rows stay as they are.
C2_InactiveFetchAmended ==
    [][ /\ (ScreenerArrived /\ activeView # "momentum")
            => /\ TablesDisplay(dom') = TablesDisplay(dom)
               /\ dom' = WithBadgeAndBanners(dom, dom')
               /\ UNCHANGED <<reversionData, activeView, chart, btPending, perfPending>>
        /\ (ReversionArrived /\ activeView # "reversion")
            => /\ dom' = dom
               /\ UNCHANGED <<screenerData, activeView, chart, btPending, perfPending>> ]_vars

\* A screener response has arrived in the reversion view, after the reversion
\* response: the badge carries the screener's date and the reversion table is
\* still the one displayed.
C2_Witness ==
    /\ lastOp.op = "fetchScreenerData" /\ lastOp.kind = "json"
    /\ activeView = "reversion"
    /\ reversionFetch = "done" /\ reversionData # Null
    /\ Shown(dom, "reversionTable")
    /\ dom.screenerDate = "d1"
    /\ Shown(dom, "regimeWarn")

\* ---- C3 ----
\* C3 as claimed: when the screener request fails (the fetch is rejected, the
\* body does not parse, or the parsed body lacks a field and the error is
\* caught), the display is what it was before the response, and no error
\* leaves fetchScreenerData.
C3_FailedFetchLeavesDisplay ==
    [][ (ScreenerArrived /\ lastOp'.caught)
            => /\ Agree(dom.screenerDate, dom'.screenerDate)
               /\ Agree(dom.hidden["regimeWarn"], dom'.hidden["regimeWarn"])
               /\ Agree(dom.hidden["regimeBull"], dom'.hidden["regimeBull"])
               /\ TablesDisplay(dom') = TablesDisplay(dom)
               /\ ~lastOp'.threw ]_vars

\* ---- C4 ----
\* C4 as claimed: switchView never raises, whatever the fetches have cached.
C4_SwitchViewNeverRaises ==
    lastOp.op = "switchView" => ~lastOp.threw

\* ---- C8 ----
\* The cache holds a response with a non-empty `signals` list.
HasSignals(data) == data # Null /\ data.hasSignals /\ Len(data.signals) > 0

\* C8 as claimed: in the momentum (reversion) view, once the script has set
\* the visibility of the view's table, the table is displayed exactly when the
\* cached response has a non-empty `signals` list, and the empty-state element
\* exactly when the table is hidden.
C8_TableIffSignals ==
    /\ (activeView = "momentum" /\ dom.hidden["screenerTable"] # Markup)
        => /\ Shown(dom, "screenerTable") <=> HasSignals(screenerData)
           /\ Shown(dom, "screenerEmpty") <=> Hidden(dom, "screenerTable")
    /\ (activeView = "reversion" /\ dom.hidden["reversionTable"] # Markup)
        => /\ Shown(dom, "reversionTable") <=> HasSignals(reversionData)
           /\ Shown(dom, "screenerEmpty") <=> Hidden(dom, "reversionTable")

\* ---- C9 ----
\* C9: each table has at most one highlighted row; a click on a row leaves
\* exactly that row highlighted, and a highlight changes only by a click on
\* its table or by the table being rendered again (which clears it); a
\* momentum-row click sends one backtest request, strategy=momentum, for the
\* ticker the row shows; a reversion-row click hides the news panel and sends
\* one backtest request, strategy=reversion, for the ticker the row shows.
C9_RowClicks ==
    /\ [](Cardinality(dom.screenerActive) <= 1 /\ Cardinality(dom.reversionActive) <= 1)
    /\ [](lastOp.op = "onMomentumClick"
            => /\ ~lastOp.threw
               /\ dom.screenerActive = {lastOp.idx}
               /\ lastOp.sent = <<BacktestUrl([ticker |-> dom.screenerRows[lastOp.idx].ticker,
                                               strategy |-> "momentum"])>>)
    /\ [](lastOp.op = "onReversionClick"
            => /\ ~lastOp.threw
               /\ dom.reversionActive = {lastOp.idx}
               /\ Hidden(dom, "newsPanel")
               /\ lastOp.sent = <<BacktestUrl([ticker |-> dom.reversionRows[lastOp.idx].ticker,
                                               strategy |-> "reversion"])>>)
    /\ [][ /\ dom'.screenerActive # dom.screenerActive
              => lastOp'.op = "onMomentumClick" \/ dom'.screenerActive = {}
           /\ dom'.reversionActive # dom.reversionActive
              => lastOp'.op = "onReversionClick" \/ dom'.reversionActive = {}
           /\ Len(btPending') > Len(btPending)
              => /\ lastOp'.op \in {"onMomentumClick", "onReversionClick"}
                 /\ Len(btPending') = Len(btPending) + 1 ]_vars

\* The second row of a two-row momentum table has been clicked after the
\* first, and the request for its ticker is in flight.
C9_Witness ==
    /\ lastOp.op = "onMomentumClick" /\ lastOp.idx = 2
    /\ dom.screenerActive = {2}
    /\ Len(dom.screenerRows) = 2
    /\ dom.activeTicker = [label |-> "Backtest", ticker |-> "BBB"]
    /\ btPending = <<[ticker |-> "BBB", strategy |-> "momentum"]>>
    /\ dom.reversionActive # {}

\* ---- C5 ----
\* The five metric fields, the return colour and the equity curve.
BacktestResult(d) ==
    << d.winRate, d.profitFactor, d.maxDrawdown, d.totalTrades, d.totalReturn,
       d.returnColor, d.curveData, d.curveColor >>

\* A backtest response has just arrived with a non-success status.
BacktestFailed ==
    lastOp'.op = "loadBacktest" /\ lastOp'.resp.kind = "http_error"

\* C5 as claimed: whenever a backtest request completes with a non-success
\* status, the label becomes the text built from the ticker and the body's
\* `detail`, the overlay is hidden, and metrics, colour and curve stay.
C5_ErrorStatusShowsDetail ==
    [][ BacktestFailed
            => /\ dom'.activeTicker.label = "error"
               /\ dom'.activeTicker.ticker = lastOp'.req.ticker
               /\ Hidden(dom', "loadingOverlay")
               /\ BacktestResult(dom') = BacktestResult(dom) ]_vars

\* C5 as amended: when a backtest request completes with a non-success status
\* and a body that parses as JSON, the label becomes the text built from the
\* ticker and the body's `detail`; when the body does not parse, the label
\* stays as it was; in both cases the overlay is hidden and the metric
\* fields, the return colour and the equity curve are left unchanged.
C5_ErrorStatusAmended ==
    [][ BacktestFailed
            => /\ lastOp'.resp.parsed
                    => dom'.activeTicker =
                         [label |-> "error", ticker |-> lastOp'.req.ticker,
                          detail |-> lastOp'.resp.detail]
               /\ ~lastOp'.resp.parsed => dom'.activeTicker = dom.activeTicker
               /\ Hidden(dom', "loadingOverlay")
               /\ BacktestResult(dom') = BacktestResult(dom) ]_vars

\* The request for BBB has failed with a `detail` after an earlier backtest
\* had filled the metric fields: the label carries ticker and detail, and the
\* metrics are still those of the earlier request.
C5_Witness ==
    /\ lastOp.op = "loadBacktest" /\ lastOp.resp.kind = "http_error"
    /\ lastOp.resp.parsed /\ lastOp.resp.detail = "No data"
    /\ lastOp.req.ticker = "BBB"
    /\ dom.activeTicker = [label |-> "error", ticker |-> "BBB", detail |-> "No data"]
    /\ Hidden(dom, "loadingOverlay")
    /\ dom.winRate = [src |-> [ticker |-> "AAA", strategy |-> "momentum"]]

\* ---- C6 ----
\* C6 as claimed: while a backtest request is outstanding (it may never
\* complete), the loading overlay is displayed, whatever else has happened.
C6_OverlayWhilePending ==
    Len(btPending) > 0 => Shown(dom, "loadingOverlay")

\* C6 as amended: a backtest request that never completes keeps the overlay
\* displayed through row clicks and view switches, until the response of
\* another backtest request arrives: every row click that sends a request
\* shows the overlay, every arrival of a backtest response hides it, and no
\* other event changes it.
C6_OverlayAmended ==
    /\ [](lastOp.op \in {"onMomentumClick", "onReversionClick"} /\ lastOp.sent # <<>>
            => Shown(dom, "loadingOverlay") /\ Len(btPending) > 0)
    /\ [](lastOp.op = "loadBacktest" => Hidden(dom, "loadingOverlay"))
    /\ [][ lastOp'.op # "loadBacktest" /\ Shown(dom, "loadingOverlay")
              => Shown(dom', "loadingOverlay") ]_vars

\* Two requests are outstanding, the view has been switched since, and the
\* overlay is still displayed.
C6_Witness ==
    /\ Len(btPending) = 2
    /\ lastOp.op = "switchView"
    /\ Shown(dom, "loadingOverlay")

\* ---- C7 ----
\* The last handler was the continuation of fetchPerformanceData and both
\* responses parsed as JSON.
PerformanceParsed ==
    /\ lastOp.op = "fetchPerformanceData"
    /\ lastOp.metrics.kind = "json" /\ lastOp.trades = "json"

\* The metrics grid holds six cards written by the script.
SixCards ==
    /\ Len(dom.perfMetricsGrid) = 6
    /\ \A i \in 1..Len(dom.perfMetricsGrid) : dom.perfMetricsGrid[i].label # Markup

\* Each switchView('performance') sends exactly the two paper-trading
\* requests, and nothing else sends either.
OnlyPerformanceViewFetches ==
    /\ (lastOp.op = "switchView" /\ lastOp.view = "performance")
        => lastOp.sent = <<MetricsUrl, TradesUrl>>
    /\ (\E i \in 1..Len(lastOp.sent) : lastOp.sent[i] \in {MetricsUrl, TradesUrl})
        => lastOp.op = "switchView" /\ lastOp.view = "performance"

\* C7 as claimed: the requests as above, and whenever both responses parse
\* the metrics grid is replaced by exactly 6 cards.
C7_SixCardsWhenParsed ==
    /\ OnlyPerformanceViewFetches
    /\ PerformanceParsed => SixCards

\* C7 as amended: each switchView('performance') issues exactly one request
\* to /api/paper/metrics and one to /api/paper/trades?status=all, no other
\* operation issues either, and when both responses parse and the metrics
\* body carries the numbers the cards format, the metrics grid is replaced by
\* exactly 6 cards (a metrics body without them leaves the grid as it was).
C7_SixCardsAmended ==
    /\ [](OnlyPerformanceViewFetches)
    /\ []((PerformanceParsed /\ lastOp.metrics.body.complete)
            => SixCards /\ dom.perfMetricsGrid = PerfCards(lastOp.metrics.body))
    /\ [][ (lastOp'.op = "fetchPerformanceData" /\ lastOp'.metrics.kind = "json"
             /\ ~lastOp'.metrics.body.complete)
              => dom'.perfMetricsGrid = dom.perfMetricsGrid ]_vars
    /\ [][ perfPending' > perfPending
              => /\ lastOp'.op = "switchView" /\ lastOp'.view = "performance"
                 /\ perfPending' = perfPending + 1 ]_vars

\* Both responses have parsed, with a loss as total PnL, and the grid holds
\* the six cards of that response.
C7_Witness ==
    /\ PerformanceParsed
    /\ lastOp.metrics.body.complete /\ lastOp.metrics.body.total_pnl = -10
    /\ SixCards
    /\ dom.perfMetricsGrid[1].color = "var(--red)"
    /\ activeView = "performance"

\* ---- C10 ----
\* What renderPerfMetrics and renderTradeLog write.
PerformanceRendering(d) ==
    << d.perfMetricsGrid, d.tradeLogRows, d.hidden["tradeLogTable"],
       d.hidden["perfEmpty"] >>

\* C10 as claimed: responses of fetchPerformanceData that arrive while
\* activeView is not 'performance' render nothing.
C10_RendersOnlyInPerformanceView ==
    [][ (lastOp'.op = "fetchPerformanceData" /\ activeView # "performance")
            => PerformanceRendering(dom') = PerformanceRendering(dom) ]_vars

\* C10 as amended: when the responses requested by fetchPerformanceData
\* arrive and parse, and the metrics body carries its numbers, the metrics
\* grid and the trade log are rendered whatever activeView is at that moment;
\* if the user has switched to another view meanwhile, they are rendered into
\* the performance panel, which stays hidden.
C10_RendersInAnyView ==
    (PerformanceParsed /\ lastOp.metrics.body.complete)
        => /\ dom.perfMetricsGrid = PerfCards(lastOp.metrics.body)
           /\ Shown(dom, "tradeLogTable") \/ Shown(dom, "perfEmpty")
           /\ Shown(dom, "tradeLogTable") <=> Hidden(dom, "perfEmpty")
           /\ Shown(dom, "tradeLogTable") => Len(dom.tradeLogRows) > 0
           /\ activeView # "performance" => Hidden(dom, "perfPanel")

\* The responses have arrived in the momentum view: grid and trade log are
\* rendered, in the hidden performance panel.
C10_Witness ==
    /\ PerformanceParsed /\ lastOp.metrics.body.complete
    /\ activeView = "momentum"
    /\ SixCards
    /\ Shown(dom, "tradeLogTable") /\ Len(dom.tradeLogRows) > 0
    /\ Hidden(dom, "perfPanel")

\* ---- C11 ----
\* The last handler was the continuation of loadBacktest for a success
\* response whose body carries every metric.
BacktestSucceeded ==
    /\ lastOp.op = "loadBacktest"
    /\ lastOp.resp.kind = "ok" /\ lastOp.resp.parsed /\ lastOp.resp.shape = "full"

\* The equity curve on display was drawn by an earlier success response.
CurveDrawn(d) == d.curveData = [src |-> d.totalReturn.src]

\* C11 as claimed: a success response sets the colour of the equity curve by
\* the sign of total_return_pct, so a curve drawn for a negative total return
\* has another colour than the curve drawn before it for a non-negative one
\* (and the other way round).
C11_CurveColourBySign ==
    [][ (BacktestSucceeded' /\ dom.totalReturn # FromMarkup /\ CurveDrawn(dom)
          /\ (dom.totalReturn.text.tenths < 0) # (lastOp'.resp.total_return_pct < 0))
            => dom'.curveColor # dom.curveColor ]_vars

\* C11 as amended: a success response replaces the data of the equity curve
\* and leaves its colour alone: the curve has the one colour initChart gave
\* the line series, whatever the sign of total_return_pct; only the return
\* text is coloured by the sign.
C11_CurveColourFixed ==
    /\ [](chart => dom.curveColor = "#2962FF")
    /\ [](BacktestSucceeded => dom.curveData = [src |-> lastOp.req])
    /\ [][ lastOp'.op = "loadBacktest" => dom'.curveColor = dom.curveColor ]_vars

\* A curve has been drawn for a negative total return: the return text has
\* the colour of a loss, the curve the colour of the series.
C11_Witness ==
    /\ BacktestSucceeded /\ lastOp.resp.total_return_pct = -52
    /\ dom.curveData = [src |-> lastOp.req]
    /\ dom.curveColor = "#2962FF"
    /\ dom.returnColor = "#f85149"

\* ---- C12 ----
\* C12: after a success response the return text has the negative-return
\* colour exactly when total_return_pct < 0 and the positive-return colour
\* otherwise, a total return of exactly 0 included.
C12_ReturnTextColour ==
    BacktestSucceeded
        => /\ dom.returnColor = "#f85149" <=> lastOp.resp.total_return_pct < 0
           /\ dom.returnColor = "#3fb950" <=> lastOp.resp.total_return_pct >= 0
           /\ dom.totalReturn.text = ToFixed(lastOp.resp.total_return_pct, 1)

\* A total return of exactly 0 has arrived after a loss was on display: the
\* return text is shown in the positive-return colour.
C12_Witness ==
    /\ BacktestSucceeded /\ lastOp.resp.total_return_pct = 0
    /\ dom.returnColor = "#3fb950"
    /\ dom.totalReturn.text.tenths = 0

\* ---- C13 ----
\* The P&L a rendered trade row displays is a number (not the '--' of an
\* absent pnl_pct) for which cmp holds: cmp is ">" or "<".
RowPnl(row, cmp) ==
    /\ row.pnlVal # [none |-> "--"]
    /\ IF cmp = ">" THEN row.pnlVal.tenths > 0 ELSE row.pnlVal.tenths < 0

\* C13: in every row renderTradeLog has rendered, the P&L cell has the class
\* pnl-positive exactly when pnl_pct > 0, pnl-negative exactly when
\* pnl_pct < 0, and no class when pnl_pct is 0 or absent; the badge has the
\* class status-open exactly for status 'open', status-closed exactly for
\* 'closed', and status-pending for every other status.
C13_TradeRowClasses ==
    \A i \in 1..Len(dom.tradeLogRows) :
        LET row == dom.tradeLogRows[i]
        IN  /\ row.pnlClass = "pnl-positive" <=> RowPnl(row, ">")
            /\ row.pnlClass = "pnl-negative" <=> RowPnl(row, "<")
            /\ (~RowPnl(row, ">") /\ ~RowPnl(row, "<")) => row.pnlClass = ""
            /\ row.badgeClass = "status-open" <=> row.status = "open"
            /\ row.badgeClass = "status-closed" <=> row.status = "closed"
            /\ row.status \notin {"open", "closed"} => row.badgeClass = "status-pending"

\* A cancelled trade that broke even is on display: no P&L class, and the
\* badge of a pending trade.
C13_Witness ==
    /\ lastOp.op = "fetchPerformanceData"
    /\ Shown(dom, "tradeLogTable")
    /\ Len(dom.tradeLogRows) = 1
    /\ dom.tradeLogRows[1].status = "cancelled"
    /\ dom.tradeLogRows[1].pnlVal = ToFixed(0, 2)
    /\ dom.tradeLogRows[1].pnlClass = ""
    /\ dom.tradeLogRows[1].badgeClass = "status-pending"

\* ---- C14 ----
\* The label loadBacktest writes at its call (lines 290-291) for request req.
CallLabel(req) ==
    [label |-> IF req.strategy = "reversion" THEN "Reversion BT" ELSE "Backtest",
     ticker |-> req.ticker]

\* The label on display was written by a loadBacktest call: it names the
\* most recently requested (ticker, strategy).
LabelNamesSelection(d) == d.activeTicker.label \in {"Backtest", "Reversion BT"}

\* The five metric fields and the equity curve are those of request req.
MetricsOf(d, req) ==
    /\ d.winRate = [src |-> req] /\ d.profitFactor = [src |-> req]
    /\ d.maxDrawdown = [src |-> req] /\ d.totalTrades = [src |-> req]
    /\ d.totalReturn # FromMarkup /\ d.totalReturn.src = req
    /\ d.curveData = [src |-> req]

C15_BadgeShowsReversionDate ==
    (activeView = "reversion" /\ reversionData # Null /\ dom.screenerDate # Markup)
        => dom.screenerDate = TextContent(reversionData.date)

\* C15 as amended: the date badge shows the date of the response that wrote
\* it last.  Every parsed screener response writes it, in any view; a parsed
\* reversion response writes it only if the reversion view is active when it
\* arrives; nothing else writes it.  With the user on the reversion view and
\* both fetches in flight, the badge ends with the date of whichever response
\* arrives last.
C15_BadgeShowsLastWriter ==
    /\ [][ (ScreenerArrived /\ lastOp'.kind = "json")
              => dom'.screenerDate = TextContent(screenerData'.date) ]_vars
    /\ [][ (ReversionArrived /\ lastOp'.kind = "json" /\ activeView = "reversion")
              => dom'.screenerDate = TextContent(reversionData'.date) ]_vars
    /\ [][ (ReversionArrived /\ activeView # "reversion")
              => dom'.screenerDate = dom.screenerDate ]_vars
    /\ [][ dom'.screenerDate # dom.screenerDate
              => (ScreenerArrived \/ ReversionArrived) /\ lastOp'.kind = "json" ]_vars

\* On the reversion view the screener response has arrived after the
\* reversion response: the reversion table is displayed under the
\* screener's date.
C15_Witness ==
    /\ activeView = "reversion"
    /\ lastOp.op = "fetchScreenerData"
    /\ reversionFetch = "done" /\ reversionData # Null
    /\ reversionData.date = "d2"
    /\ screenerData # Null /\ screenerData.date = "d1"
    /\ Shown(dom, "reversionTable") /\ Len(dom.reversionRows) > 0
    /\ dom.screenerDate = "d1"

\* ---- C16 ----
\* C16: whenever a backtest request has been issued and none is outstanding,
\* the loading overlay is hidden; and when every request is answered in the
\* end, the overlay displayed by a loadBacktest call is eventually hidden.
C16_OverlayHiddenWhenIdle ==
    /\ []((chart /\ btPending = <<>>) => Hidden(dom, "loadingOverlay"))
    /\ (Shown(dom, "loadingOverlay") ~> Hidden(dom, "loadingOverlay"))

\* The one request issued has been rejected by the network: nothing is
\* outstanding, the label still names the request, and the overlay is hidden.
C16_Witness ==
    /\ chart /\ btPending = <<>>
    /\ lastOp.op = "loadBacktest" /\ lastOp.resp.kind = "network_error"
    /\ dom.activeTicker = CallLabel(lastOp.req)
    /\ Hidden(dom, "loadingOverlay")

\* ---- C17 ----
\* The rows of a table are the signals of the cached response data, one row
\* per signal and in order, each bound to the index of its signal.
RowsAreSignals(rows, data) ==
    /\ data # Null /\ data.hasSignals
    /\ Len(rows) = Len(data.signals)
    /\ \A i \in 1..Len(rows) :
          rows[i] = [idx |-> i, ticker |-> data.signals[i].ticker]

\* C17 as claimed: whenever the script displays the momentum (reversion)
\* table, its rows are exactly the `signals` of the current screenerData
\* (reversionData), in order, so that a click on a row resolves to the signal
\* the row displays.
C17_RowsMatchCache ==
    /\ Shown(dom, "screenerTable") => RowsAreSignals(dom.screenerRows, screenerData)
    /\ Shown(dom, "reversionTable") => RowsAreSignals(dom.reversionRows, reversionData)

\* ---- C18 ----
\* The last handler was the continuation of a fetch.
FetchCompleted(op) ==
    op.op \in {"fetchScreenerData", "fetchReversionData", "loadBacktest",
               "fetchPerformanceData"}

\* C18: the script displays the news panel only in the momentum view, and
\* only for the momentum row clicked last, whose signal has news; every
\* switchView hides it, a reversion-row click hides it, a momentum-row click
\* shows it exactly when the signal has news, and no fetch completion changes
\* whether it is displayed.
C18_NewsPanel ==
    /\ [](Shown(dom, "newsPanel")
            => /\ activeView = "momentum"
               /\ screenerData # Null /\ screenerData.hasSignals
               /\ \E idx \in 1..Len(screenerData.signals) :
                     /\ dom.screenerActive = {idx}
                     /\ screenerData.signals[idx].news
                     /\ dom.newsLabel = screenerData.signals[idx].ticker)
    /\ [](lastOp.op = "switchView" => Hidden(dom, "newsPanel"))
    /\ [](lastOp.op = "onReversionClick" => Hidden(dom, "newsPanel"))
    /\ [](lastOp.op = "onMomentumClick"
            => IF screenerData.signals[lastOp.idx].news
               THEN Shown(dom, "newsPanel") ELSE Hidden(dom, "newsPanel"))
    /\ [][ FetchCompleted(lastOp')
              => dom'.hidden["newsPanel"] = dom.hidden["newsPanel"] ]_vars

\* The news of AAA are still displayed after the response of its backtest
\* request has arrived.
C18_Witness ==
    /\ Shown(dom, "newsPanel") /\ dom.newsLabel = "AAA"
    /\ activeView = "momentum"
    /\ lastOp.op = "loadBacktest"
    /\ Cardinality(dom.screenerActive) = 1
    /\ Len(dom.screenerRows) = 2

=============================================================================
